---- MODULE Spec2Model ----
(***************************************************************************)
(* The paladin UART -> MQTT bridge (src/paladin/all_in_one-paladin.py),    *)
(* with the bridge without time-sync (src/paladin/paladin.py) run beside   *)
(* it on the same port, broker and device.                                 *)
(*                                                                         *)
(* Text is a sequence of one-character strings.  Two units stand for what  *)
(* is not ASCII: "SUP2" is U+00B2 (superscript two: str.isdigit() is True, *)
(* float() raises ValueError) and "xFF" is a byte that is not valid UTF-8  *)
(* (dropped by decode(errors="ignore")).                                   *)
(* A float is the pair <<num, scale>> meaning num / 10^scale, with no      *)
(* trailing zero in the fraction; None is the empty tuple.                 *)
(***************************************************************************)
EXTENDS Integers, Sequences, FiniteSets, TLC

\* ------------------------------------------------------------ configuration

MQTT_TOPIC_PREFIX == "homeassistant/sensor/paladin"

SENSOR_NAMES ==
  << "mains_watts", "transfer_watts", "sensor_2", "water_temp", "delta_t",
     "min_temp", "max_temp", "grid_in", "grid_out", "transfer", "top_up",
     "sensor_11", "hhours", "inverter_status", "charger_control",
     "solar_export_flag", "export_limit", "allow_import_flag", "offset_flag",
     "time_hack" >>

\* the frame length parse_uart_data insists on
N == 20

\* the time-sync cadence, seconds
TimeSyncCadence == 3600

\* the poll cadence, seconds
PollCadence == 30

\* ------------------------------------------------------------------- bounds

\* loop iterations explored
MaxCycles == 3

\* how many slots of a device frame may deviate from the plain frame at once
MaxOdd == 1

\* ------------------------------------------------------------ text helpers

None == << >>

Digits == {"0", "1", "2", "3", "4", "5", "6", "7", "8", "9"}

DigitVal(c) ==
  CASE c = "0" -> 0 [] c = "1" -> 1 [] c = "2" -> 2 [] c = "3" -> 3
    [] c = "4" -> 4 [] c = "5" -> 5 [] c = "6" -> 6 [] c = "7" -> 7
    [] c = "8" -> 8 [] c = "9" -> 9

\* str.isspace() of one character
IsSpace(c) == c \in {" ", "\n", "\r", "\t"}

\* bytes.decode("utf-8", errors="ignore"): undecodable bytes vanish
Decode(raw) == SelectSeq(raw, LAMBDA c : c # "xFF")

RECURSIVE LStrip(_)
LStrip(s) == IF s # << >> /\ IsSpace(Head(s)) THEN LStrip(Tail(s)) ELSE s

RECURSIVE RStrip(_)
RStrip(s) ==
  IF s # << >> /\ IsSpace(s[Len(s)]) THEN RStrip(SubSeq(s, 1, Len(s) - 1)) ELSE s

\* str.strip()
Strip(s) == RStrip(LStrip(s))

RECURSIVE SplitFrom(_, _, _, _)
SplitFrom(s, i, cur, acc) ==
  IF i > Len(s) THEN Append(acc, cur)
  ELSE IF s[i] = "," THEN SplitFrom(s, i + 1, << >>, Append(acc, cur))
  ELSE SplitFrom(s, i + 1, Append(cur, s[i]), acc)

\* str.split(","): always at least one token
Split(s) == SplitFrom(s, 1, << >>, << >>)

\* x.replace('.', '', 1): the first decimal point removed
ReplaceFirstDot(x) ==
  IF \E i \in 1..Len(x) : x[i] = "."
  THEN LET k == CHOOSE i \in 1..Len(x) :
                  x[i] = "." /\ \A j \in 1..(i - 1) : x[j] # "."
       IN  SubSeq(x, 1, k - 1) \o SubSeq(x, k + 1, Len(x))
  ELSE x

\* str.isdigit(): non-empty and every character a digit (U+00B2 is one)
IsDigit(s) == s # << >> /\ \A i \in 1..Len(s) : s[i] \in Digits \cup {"SUP2"}

\* the numeric test of the list comprehension
LooksNumeric(x) == IsDigit(ReplaceFirstDot(x))

RECURSIVE DigitsToNat(_, _)
DigitsToNat(s, acc) ==
  IF s = << >> THEN acc ELSE DigitsToNat(Tail(s), 10 * acc + DigitVal(Head(s)))

RECURSIVE Normalise(_, _)
Normalise(num, scale) ==
  IF scale > 0 /\ num % 10 = 0 THEN Normalise(num \div 10, scale - 1)
  ELSE <<num, scale>>

\* float(x) raises ValueError on a character that is no ASCII digit or point
FloatRaises(x) == \E i \in 1..Len(x) : x[i] \notin Digits \cup {"."}

\* float(x) for x made of ASCII digits and at most one decimal point
Float(x) ==
  LET dot  == IF \E i \in 1..Len(x) : x[i] = "."
              THEN CHOOSE i \in 1..Len(x) : x[i] = "." ELSE Len(x) + 1
      frac == IF dot > Len(x) THEN 0 ELSE Len(x) - dot
  IN  Normalise(DigitsToNat(ReplaceFirstDot(x), 0), frac)

\* parse_uart_data: the list of N values, or None (the empty tuple) when the
\* token count is not N or float() raised ValueError inside the comprehension
\* (variant: the length test left out)
parse_uart_data_AnyLength(data) ==
  LET toks == Split(Strip(data))
  IN  IF \E i \in 1..Len(toks) : LooksNumeric(toks[i]) /\ FloatRaises(toks[i])
      THEN None
      ELSE [i \in 1..Len(toks) |->
              IF LooksNumeric(toks[i]) THEN Float(toks[i]) ELSE None]

parse_uart_data(data) ==
  LET toks == Split(Strip(data))
  IN  IF \E i \in 1..Len(toks) : LooksNumeric(toks[i]) /\ FloatRaises(toks[i])
      THEN None
      ELSE IF Len(toks) = N
      THEN [i \in 1..N |->
              IF LooksNumeric(toks[i]) THEN Float(toks[i]) ELSE None]
      ELSE None


\* ------------------------------------------------------- the device's side

RECURSIVE NatToDigits(_)
NatToDigits(n) ==
  LET d == CHOOSE c \in Digits : DigitVal(c) = n % 10
  IN  IF n < 10 THEN <<d>> ELSE Append(NatToDigits(n \div 10), d)

RECURSIVE Join(_)
Join(toks) ==
  IF toks = << >> THEN << >>
  ELSE IF Len(toks) = 1 THEN toks[1]
  ELSE toks[1] \o <<",">> \o Join(Tail(toks))

\* the plain token of slot i: the decimal digits of i
PlainToken(i) == NatToDigits(i)

\* tokens a device may put in a slot instead of the plain one
OddTokens ==
  { << >>, <<"x">>, <<"-", "5">>, <<"1", "e", "3">>, <<"SUP2">>, <<"xFF">>,
    <<"1", ".", "2", ".", "3">>, <<".">>, <<"5", ".">>, <<".", "5">>,
    <<"1", "8", ".", "0">>, <<"2", "1", ".", "5">> }

\* token counts a device line may have
Lengths == {1, N - 1, N, N + 1}

\* n tokens, plain except for r slots from p on, which hold t
FrameWith(n, p, r, t) ==
  [i \in 1..n |-> IF p <= i /\ i < p + r THEN t ELSE PlainToken(i)]

\* "100,200,,21.5,3.2,18.0,25.0,0,0,0,0,,5,1,1,0,0,1,0,1700000000"
E2EFrame ==
  << <<"1", "0", "0">>, <<"2", "0", "0">>, << >>, <<"2", "1", ".", "5">>,
     <<"3", ".", "2">>, <<"1", "8", ".", "0">>, <<"2", "5", ".", "0">>,
     <<"0">>, <<"0">>, <<"0">>, <<"0">>, << >>, <<"5">>, <<"1">>, <<"1">>,
     <<"0">>, <<"0">>, <<"1">>, <<"0">>,
     <<"1", "7", "0", "0", "0", "0", "0", "0", "0", "0">> >>

\* what the device may answer to one request, as tokens (none: silence)
DeviceFrames ==
  {<< >>, E2EFrame}
    \cup {FrameWith(n, p, r, t) :
            n \in Lengths, p \in 1..(N + 1), r \in 0..MaxOdd, t \in OddTokens}

\* bytes around the tokens: line ending, stray whitespace, a noise byte,
\* or no terminator at all (the read timed out in the middle of a line)
Framings ==
  { <<<< >>, <<"\n">>>>, <<<<" ">>, <<"\r", "\n">>>>, <<<<"xFF">>, << >>>> }

\* the bytes readline() returns for a frame under a framing
RawLine(frame, framing) == framing[1] \o Join(frame) \o framing[2]

\* the frames whose publish calls are remembered for one iteration
RepeatFrames == {E2EFrame, FrameWith(N, 1, 0, << >>)}

\* clock values at process start
StartClocks == {0, TimeSyncCadence - 1, 24 * TimeSyncCadence - 1}

\* seconds a loop iteration may take beyond its sleep
Overheads == {0, TimeSyncCadence - PollCadence - 1, TimeSyncCadence - PollCadence}

\* ------------------------------------------------------------------- state

VARIABLES
  pc,              \* where main() is
  is_open,         \* ser.is_open
  clock,           \* time.time()
  last_time_sent,  \* main's last_time_sent
  current_time,    \* main's current_time
  response,        \* main's response
  values,          \* main's values
  log,             \* the I/O calls made since the last time.sleep(30)
  cycles,          \* loop iterations begun
  announced,       \* runs of publish_discovery_messages
  timer0,          \* last_time_sent when the current iteration began
  wire,            \* the tokens the device sent in the current iteration
  now,             \* send_time_to_serial's now, as last read
  prev,            \* the frame and the publish calls of the iteration before,
                   \* when that frame is one of RepeatFrames (SpecRepeat)
  paladin_pc,      \* where main() of paladin.py is, run on the same port,
                   \* broker and device with the same outcomes
  paladin_log      \* the I/O calls paladin.py made since its last time.sleep(30)

vars ==
  << pc, is_open, clock, last_time_sent, current_time, response, values, log,
     cycles, announced, timer0, wire, now, prev,
     paladin_pc, paladin_log >>

\* one I/O call: what was called, how it ended, and its arguments
Ev(op, res, topic, value) ==
  [op |-> op, res |-> res, topic |-> topic, value |-> value]

\* a write to the device, with time.time() when it was made
EvAt(op, res, topic, value, t) ==
  [op |-> op, res |-> res, topic |-> topic, value |-> value, at |-> t]

\* a call made with retain=True
EvRetained(op, res, topic, value) ==
  [op |-> op, res |-> res, topic |-> topic, value |-> value, retain |-> TRUE]

\* ----------------------------------------------------------- the functions

\* datetime.datetime.now() when time.time() is t (local time offset zero)
datetime_now(t) ==
  [hour |-> (t \div 3600) % 24, minute |-> (t \div 60) % 60, second |-> t % 60]

\* seconds_today = now.hour * 3600 + now.minute * 60 + now.second
\* (variant: the minutes taken for seconds)
seconds_today_MinutesUnscaled(n) == n.hour * 3600 + n.minute + n.second

seconds_today(n) == n.hour * 3600 + n.minute * 60 + n.second

\* time_string = f"T{seconds_today}", which encodes to the same ASCII bytes
time_string(n) == <<"T">> \o NatToDigits(seconds_today(n))

\* now.hour * 3600 + now.minute * 60 + now.second of datetime.now()
SecondsToday(t) == seconds_today(datetime_now(t))

\* how a write or flush of the time payload may end
PushOutcomes == {"ok", "SerialException", "Exception"}

\* send_time_to_serial: every exception is caught inside, so the caller
\* always continues; the calls it makes on the port are returned
send_time_to_serial(open, t, outcome) ==
  (IF open THEN << >> ELSE <<Ev("open", "ok", "", << >>)>>)
    \o <<EvAt("pushTime", outcome, "", time_string(datetime_now(t)), t)>>

\* send_to_mqtt: one retained publish to {prefix}/{sensor}
send_to_mqtt(sensor, value, res) ==
  EvRetained("publish", res, MQTT_TOPIC_PREFIX \o "/" \o sensor, value)

\* publish_discovery_messages: one retained config publish per sensor
\* (variant: the last sensor left out)
publish_discovery_messages_SkipsLast ==
  [i \in 1..(N - 1) |->
     EvRetained("announce", "ok",
        "homeassistant/sensor/paladin_" \o SENSOR_NAMES[i] \o "/config",
        << >>)]

publish_discovery_messages ==
  [i \in 1..N |->
     EvRetained("announce", "ok",
        "homeassistant/sensor/paladin_" \o SENSOR_NAMES[i] \o "/config",
        << >>)]

\* the for loop of main: a publish for every slot whose value is not None
\* (variant: the None test left out)
RECURSIVE PublishLoop_NoNoneCheck(_, _)
PublishLoop_NoNoneCheck(vals, i) ==
  IF i > Len(SENSOR_NAMES) THEN << >>
  ELSE (IF i <= Len(vals)
        THEN <<send_to_mqtt(SENSOR_NAMES[i], vals[i], "ok")>> ELSE << >>)
         \o PublishLoop_NoNoneCheck(vals, i + 1)

RECURSIVE PublishLoop(_, _)
PublishLoop(vals, i) ==
  IF i > Len(SENSOR_NAMES) THEN << >>
  ELSE (IF i <= Len(vals) /\ vals[i] # None
        THEN <<send_to_mqtt(SENSOR_NAMES[i], vals[i], "ok")>> ELSE << >>)
         \o PublishLoop(vals, i + 1)

\* the except clauses of the loop, tried in order: SerialException is
\* handled by a reopen; for anything else the second clause is evaluated,
\* and the name paho is not bound (the import binds only mqtt), so a
\* NameError leaves main
ExceptClause(exc) ==
  IF exc = "SerialException" THEN "recover" ELSE "crashed"

\* ----------------------------------- paladin.py, the bridge without time-sync

\* send_to_mqtt of paladin.py: one retained publish to {prefix}/{sensor}
paladin_send_to_mqtt(sensor, value, res) ==
  EvRetained("publish", res, MQTT_TOPIC_PREFIX \o "/" \o sensor, value)

\* publish_discovery_messages of paladin.py: one retained config publish per
\* sensor
paladin_publish_discovery_messages ==
  [i \in 1..N |->
     EvRetained("announce", "ok",
        "homeassistant/sensor/paladin_" \o SENSOR_NAMES[i] \o "/config",
        << >>)]

\* the for loop of paladin.py's main: values[i] is read for every sensor; an
\* index beyond the list raises IndexError, which ends the loop
RECURSIVE paladin_PublishLoop(_, _)
paladin_PublishLoop(vals, i) ==
  IF i > Len(SENSOR_NAMES) \/ i > Len(vals) THEN << >>
  ELSE (IF vals[i] # None
        THEN <<paladin_send_to_mqtt(SENSOR_NAMES[i], vals[i], "ok")>> ELSE << >>)
         \o paladin_PublishLoop(vals, i + 1)

\* the publish calls paladin.py makes for the parsed values; `if values:`
\* skips the loop for None
paladin_Publishes(vals) ==
  IF vals = None THEN << >> ELSE paladin_PublishLoop(vals, 1)

\* of those calls, the ones made when call k raises (k = 0 or a call never
\* made: none does)
paladin_PublishCalls(pubs, k) ==
  IF k = 0 \/ k > Len(pubs) THEN pubs
  ELSE SubSeq(pubs, 1, k - 1) \o <<[pubs[k] EXCEPT !.res = "Exception"]>>

\* the one except clause of paladin.py's loop: every exception is logged and
\* the iteration goes on to its sleep
\* (variant: the exception not caught)
paladin_ExceptClause_Uncaught(exc) == "crashed"

paladin_ExceptClause(exc) == "sleep"

\* a step of paladin.py's main at position p; elsewhere it does nothing
paladin_When(p, step) ==
  IF paladin_pc = p THEN step ELSE UNCHANGED << paladin_pc, paladin_log >>

\* ser = serial.Serial(...); return when it cannot be opened
paladin_OpenSerial(ok) ==
  /\ paladin_log' = Append(paladin_log,
                           Ev("open", IF ok THEN "ok" ELSE "Exception", "", << >>))
  /\ paladin_pc' = IF ok THEN "connect" ELSE "exited"

\* client.connect(...); on failure main returns, the port left as it is
paladin_ConnectBroker(ok) ==
  /\ paladin_log' = Append(paladin_log,
                           Ev("connect", IF ok THEN "ok" ELSE "Exception", "", << >>))
  /\ paladin_pc' = IF ok THEN "discover" ELSE "exited"

\* publish_discovery_messages(client), then into the loop
paladin_Discover ==
  /\ paladin_log' = paladin_log \o paladin_publish_discovery_messages
  /\ paladin_pc' = "poll"

\* the loop body when ser.write(b"A") raises
paladin_RequestRaises ==
  /\ paladin_log' = Append(paladin_log, Ev("request", "SerialException", "", << >>))
  /\ paladin_pc' = paladin_ExceptClause("SerialException")

\* the loop body when ser.readline() raises
paladin_ReadRaises ==
  /\ paladin_log' = paladin_log \o << Ev("request", "ok", "", << >>),
                                      Ev("readline", "SerialException", "", << >>) >>
  /\ paladin_pc' = paladin_ExceptClause("SerialException")

\* the loop body when a response is read and pubs are the publish calls its
\* values lead to (parse_uart_data of paladin.py is statement for statement
\* that of all_in_one-paladin.py, so the values are the same)
paladin_Exchange(pubs, k) ==
  LET calls == paladin_PublishCalls(pubs, k)
  IN  /\ paladin_log' = paladin_log \o << Ev("request", "ok", "", << >>),
                                          Ev("readline", "ok", "", << >>) >>
                                     \o calls
      /\ paladin_pc' = IF calls = << >> \/ calls[Len(calls)].res = "ok"
                        THEN "sleep" ELSE paladin_ExceptClause("Exception")

\* time.sleep(30) at the end of every iteration
paladin_Sleep ==
  /\ paladin_log' = <<Ev("sleep", "ok", "", <<PollCadence>>)>>
  /\ paladin_pc' = "poll"

\* ----------------------------------------------------------------- actions

Init ==
  /\ pc = "start"
  /\ is_open = FALSE
  /\ clock \in StartClocks
  /\ last_time_sent = 0
  /\ current_time = 0
  /\ response = << >>
  /\ values = None
  /\ log = << >>
  /\ cycles = 0
  /\ announced = 0
  /\ timer0 = 0
  /\ wire = << >>
  /\ now = datetime_now(0)
  /\ prev = << >>
  /\ paladin_pc = "start"
  /\ paladin_log = << >>

\* where main goes after serial.Serial(...)
AfterOpen(ok) == IF ok THEN "connect" ELSE "exited"

\* where main goes after client.connect(...)
\* (variant: the failure not acted on)
AfterConnect_Ignored(ok) == "discover"

AfterConnect(ok) == IF ok THEN "discover" ELSE "exited"

\* main: ser = serial.Serial(...); return when it cannot be opened
OpenSerial ==
  /\ pc = "start"
  /\ \E ok \in BOOLEAN :
       /\ log' = Append(log, Ev("open", IF ok THEN "ok" ELSE "Exception", "", << >>))
       /\ is_open' = ok
       /\ pc' = AfterOpen(ok)
       /\ paladin_When("start", paladin_OpenSerial(ok))
  /\ UNCHANGED << clock, last_time_sent, current_time, response, values,
                  cycles, announced, timer0, wire, now, prev >>

\* main: client.connect(...); on failure the port is closed and main returns
ConnectBroker ==
  /\ pc = "connect"
  /\ \E ok \in BOOLEAN :
       /\ pc' = AfterConnect(ok)
       /\ paladin_When("connect", paladin_ConnectBroker(ok))
       /\ IF ok
          THEN /\ log' = Append(log, Ev("connect", "ok", "", << >>))
               /\ UNCHANGED is_open
          ELSE /\ log' = Append(log, Ev("connect", "Exception", "", << >>))
                           \o (IF is_open THEN <<Ev("close", "ok", "", << >>)>>
                               ELSE << >>)
               /\ is_open' = FALSE
  /\ UNCHANGED << clock, last_time_sent, current_time, response, values,
                  cycles, announced, timer0, wire, now, prev >>

\* main: publish_discovery_messages(client)
Discover ==
  /\ pc = "discover"
  /\ log' = log \o publish_discovery_messages
  /\ announced' = announced + 1
  /\ pc' = "startpush"
  /\ paladin_When("discover", paladin_Discover)
  /\ UNCHANGED << is_open, clock, last_time_sent, current_time, response,
                  values, cycles, timer0, wire, now, prev >>

\* last_time_sent = time.time() - 3600: the timer starts expired
\* (variant: the timer starts at the current time)
InitialTimer_Now(t) == t

InitialTimer(t) == t - TimeSyncCadence

\* main: last_time_sent = time.time() - 3600; send_time_to_serial(ser)
StartupTimePush ==
  /\ pc = "startpush"
  /\ last_time_sent' = InitialTimer(clock)
  /\ now' = datetime_now(clock)
  /\ \E outcome \in PushOutcomes :
       log' = log \o send_time_to_serial(is_open, clock, outcome)
  /\ pc' = "top"
  /\ UNCHANGED << is_open, clock, current_time, response, values, cycles,
                  announced, timer0, wire, prev,
                  paladin_pc, paladin_log >>

\* the timer after the send-time task of an iteration that began at time t
\* (variant: restarted in every iteration)
TimerAfterSync_Always(due, t, old) == t

TimerAfterSync(due, t, old) == IF due THEN t ELSE old

\* where main goes after send_time_to_serial returns: on to the request
\* (variant: a failed push handled as a transport fault)
AfterTimeSync_FaultOnFailure(outcome) ==
  IF outcome = "ok" THEN "poll" ELSE "recover"

AfterTimeSync(outcome) == "poll"

\* the loop, send-time task: push when an hour has passed, and restart the timer
TimeSync ==
  /\ pc = "top"
  /\ cycles < MaxCycles
  /\ cycles' = cycles + 1
  /\ current_time' = clock
  /\ timer0' = last_time_sent
  /\ LET due == clock - last_time_sent >= TimeSyncCadence
     IN  /\ last_time_sent' = TimerAfterSync(due, clock, last_time_sent)
         /\ IF due
            THEN \E outcome \in PushOutcomes :
                   /\ log' = log \o send_time_to_serial(is_open, clock, outcome)
                   /\ now' = datetime_now(clock)
                   /\ pc' = AfterTimeSync(outcome)
            ELSE /\ log' = log
                 /\ now' = now
                 /\ pc' = "poll"
  /\ UNCHANGED << is_open, clock, response, values, announced, wire, prev,
                  paladin_pc, paladin_log >>

\* which publish call may raise: none (0), the first or the last
PublishFaults(n) == {0} \cup (IF n > 0 THEN {1, n} ELSE {})

\* of the publish calls pubs of a frame, those made when call k raises
\* (k = 0: none does)
\* (variant: a frame whose calls equal the previous iteration's is not
\* published again)
PublishCalls_OnlyChanges(pubs, k) ==
  IF prev # << >> /\ pubs = prev[2] THEN << >>
  ELSE IF k = 0 THEN pubs
  ELSE SubSeq(pubs, 1, k - 1) \o <<[pubs[k] EXCEPT !.res = "Exception"]>>

PublishCalls(pubs, k) ==
  IF k = 0 THEN pubs
  ELSE SubSeq(pubs, 1, k - 1) \o <<[pubs[k] EXCEPT !.res = "Exception"]>>

\* the values main publishes for a response: none for an empty response
ValuesOf(resp) == IF resp # << >> THEN parse_uart_data(resp) ELSE None

\* response = ser.readline().decode("utf-8", errors="ignore").strip()
ResponseOf(raw) == Strip(Decode(raw))

\* what one request can end in: <<frame sent, response read, values parsed,
\* publish calls of main's for loop, publish calls of paladin.py's for loop>>
ExchangeOf(frame, resp) ==
  <<frame, resp, ValuesOf(resp), PublishLoop(ValuesOf(resp), 1),
    paladin_Publishes(ValuesOf(resp))>>

Exchanges ==
  { ExchangeOf(frame, ResponseOf(RawLine(frame, framing))) :
      frame \in DeviceFrames, framing \in Framings }

\* where main goes after a response was read, when publish call k raised
\* (k = 0: none did)
\* (variant: an empty response handled as a transport fault)
AfterResponse_EmptyIsFault(resp, k) ==
  IF resp = << >> THEN ExceptClause("SerialException")
  ELSE IF k = 0 THEN "sleep" ELSE ExceptClause("Exception")

AfterResponse(resp, k) == IF k = 0 THEN "sleep" ELSE ExceptClause("Exception")

\* the loop, UART-to-MQTT task: request, read, parse, publish
Poll ==
  /\ pc = "poll"
  /\ \/ \* ser.write(b"A") raises
        /\ log' = Append(log, Ev("request", "SerialException", "", << >>))
        /\ pc' = ExceptClause("SerialException")
        /\ paladin_When("poll", paladin_RequestRaises)
        /\ UNCHANGED << response, values, wire >>
     \/ \* ser.readline() raises
        /\ log' = log \o << Ev("request", "ok", "", << >>),
                            Ev("readline", "SerialException", "", << >>) >>
        /\ pc' = ExceptClause("SerialException")
        /\ paladin_When("poll", paladin_ReadRaises)
        /\ UNCHANGED << response, values, wire >>
     \/ \* a line, a part of one, or nothing comes back
        \E x \in Exchanges :
          /\ wire' = x[1]
          /\ response' = x[2]
          /\ values' = x[3]
          /\ \E k \in PublishFaults(Len(x[4])) :
               /\ log' = log \o << Ev("request", "ok", "", << >>),
                                   Ev("readline", "ok", "", << >>) >>
                              \o PublishCalls(x[4], k)
               /\ pc' = AfterResponse(x[2], k)
               /\ paladin_When("poll", paladin_Exchange(x[5], k))
  /\ UNCHANGED << is_open, clock, last_time_sent, current_time, cycles,
                  announced, timer0, now, prev >>

\* where main goes after the reopen attempt
\* (variant: no break when the reopen fails)
AfterReopen_KeepGoing(ok) == "sleep"

\* (variant: the next iteration begun without the sleep)
AfterReopen_NoSleep(ok) == IF ok THEN "top" ELSE "stopped"

AfterReopen(ok) == IF ok THEN "sleep" ELSE "stopped"

\* except serial.SerialException: close the port, open a new one, break when
\* that fails
Recover ==
  /\ pc = "recover"
  /\ \E ok \in BOOLEAN :
       /\ log' = log \o (IF is_open THEN <<Ev("close", "ok", "", << >>)>> ELSE << >>)
                     \o <<Ev("open", IF ok THEN "ok" ELSE "Exception", "", << >>)>>
       /\ is_open' = ok
       /\ pc' = AfterReopen(ok)
  /\ UNCHANGED << clock, last_time_sent, current_time, response, values,
                  cycles, announced, timer0, wire, now, prev,
                  paladin_pc, paladin_log >>

\* time.sleep(30) at the end of every iteration that did not break; response
\* and values are assigned anew before the next iteration reads them, so they
\* are cleared here
EndOfIteration ==
  /\ pc = "sleep"
  /\ \E extra \in Overheads : clock' = clock + PollCadence + extra
  /\ log' = <<Ev("sleep", "ok", "", <<PollCadence>>)>>
  /\ response' = << >>
  /\ values' = None
  /\ wire' = << >>
  /\ pc' = "top"
  /\ paladin_When("sleep", paladin_Sleep)
  /\ UNCHANGED << is_open, last_time_sent, current_time, cycles, announced,
                  timer0, now >>

Sleep == EndOfIteration /\ prev' = << >>

\* the frame and the publish calls of the iteration that ends, when its
\* frame is one of RepeatFrames
Remembered ==
  IF (\E i \in 1..Len(log) : log[i].op = "readline" /\ log[i].res = "ok")
       /\ wire \in RepeatFrames
  THEN <<wire, SelectSeq(log, LAMBDA e : e.op = "publish")>>
  ELSE << >>

\* the same sleep, with the ending iteration remembered for the next one
SleepRemembering == EndOfIteration /\ prev' = Remembered

Next ==
  \/ OpenSerial
  \/ ConnectBroker
  \/ Discover
  \/ StartupTimePush
  \/ TimeSync
  \/ Poll
  \/ Recover
  \/ Sleep

Spec == Init /\ [][Next]_vars

\* the run that starts at clock 0, each iteration remembered in the next
InitRepeat == Init /\ clock = 0

NextRepeat ==
  \/ OpenSerial
  \/ ConnectBroker
  \/ Discover
  \/ StartupTimePush
  \/ TimeSync
  \/ Poll
  \/ Recover
  \/ SleepRemembering

SpecRepeat == InitRepeat /\ [][NextRepeat]_vars

\* main just before the startup time push, at every second of a day
InitTime ==
  /\ pc = "startpush"
  /\ is_open = TRUE
  /\ clock \in 0..(24 * TimeSyncCadence - 1)
  /\ last_time_sent = 0
  /\ current_time = 0
  /\ response = << >>
  /\ values = None
  /\ log = << Ev("open", "ok", "", << >>), Ev("connect", "ok", "", << >>) >>
             \o publish_discovery_messages
  /\ cycles = 0
  /\ announced = 1
  /\ timer0 = 0
  /\ wire = << >>
  /\ now = datetime_now(0)
  /\ prev = << >>
  /\ paladin_pc = "poll"
  /\ paladin_log = << Ev("open", "ok", "", << >>), Ev("connect", "ok", "", << >>) >>
                     \o paladin_publish_discovery_messages

NextTime == StartupTimePush

\* the startup time push alone, for every time of day
SpecTime == InitTime /\ [][NextTime]_vars

\* ------------------------------------------------------- reading the log

\* the measurement publish calls in a log, in order
Publishes(l) == SelectSeq(l, LAMBDA e : e.op = "publish")

\* the <<topic, value>> pairs of the measurement publish calls in a log
Published(l) == [i \in 1..Len(Publishes(l)) |->
                   <<Publishes(l)[i].topic, Publishes(l)[i].value>>]

\* an I/O error on the command write or on the line read
TransportFault(e) == e.op \in {"request", "readline"} /\ e.res = "SerialException"

FaultIn(l) == \E i \in 1..Len(l) : TransportFault(l[i])

\* the iteration read a response (possibly an empty one)
ReadOk(l) == \E i \in 1..Len(l) : l[i].op = "readline" /\ l[i].res = "ok"

IsPrefix(a, b) == Len(a) <= Len(b) /\ SubSeq(b, 1, Len(a)) = a

\* ------------------------------------------------------------------ claims

\* the values of the end-to-end line, slot by slot
E2EValues ==
  << <<100, 0>>, <<200, 0>>, None, <<215, 1>>, <<32, 1>>, <<18, 0>>,
     <<25, 0>>, <<0, 0>>, <<0, 0>>, <<0, 0>>, <<0, 0>>, None, <<5, 0>>,
     <<1, 0>>, <<1, 0>>, <<0, 0>>, <<0, 0>>, <<1, 0>>, <<0, 0>>,
     <<1700000000, 0>> >>

\* the publish calls of the end-to-end line
E2EPublished ==
  << <<"homeassistant/sensor/paladin/mains_watts", <<100, 0>>>>,
     <<"homeassistant/sensor/paladin/transfer_watts", <<200, 0>>>>,
     <<"homeassistant/sensor/paladin/water_temp", <<215, 1>>>>,
     <<"homeassistant/sensor/paladin/delta_t", <<32, 1>>>>,
     <<"homeassistant/sensor/paladin/min_temp", <<18, 0>>>>,
     <<"homeassistant/sensor/paladin/max_temp", <<25, 0>>>>,
     <<"homeassistant/sensor/paladin/grid_in", <<0, 0>>>>,
     <<"homeassistant/sensor/paladin/grid_out", <<0, 0>>>>,
     <<"homeassistant/sensor/paladin/transfer", <<0, 0>>>>,
     <<"homeassistant/sensor/paladin/top_up", <<0, 0>>>>,
     <<"homeassistant/sensor/paladin/hhours", <<5, 0>>>>,
     <<"homeassistant/sensor/paladin/inverter_status", <<1, 0>>>>,
     <<"homeassistant/sensor/paladin/charger_control", <<1, 0>>>>,
     <<"homeassistant/sensor/paladin/solar_export_flag", <<0, 0>>>>,
     <<"homeassistant/sensor/paladin/export_limit", <<0, 0>>>>,
     <<"homeassistant/sensor/paladin/allow_import_flag", <<1, 0>>>>,
     <<"homeassistant/sensor/paladin/offset_flag", <<0, 0>>>>,
     <<"homeassistant/sensor/paladin/time_hack", <<1700000000, 0>>>> >>

\* C1 as stated: a cycle that receives the end-to-end line and completes has
\* decoded a 20-slot frame in which only slot 2 (sensor_2) is empty, and has
\* made exactly 19 publish calls, none of them to {prefix}/sensor_2.
C1_Original ==
  (pc = "sleep" /\ wire = E2EFrame) =>
    /\ Len(values) = N
    /\ \A i \in 1..N : (values[i] = None) <=> (i = 3)
    /\ Len(Publishes(log)) = 19
    /\ \A i \in 1..Len(Publishes(log)) :
         Publishes(log)[i].topic # "homeassistant/sensor/paladin/sensor_2"

\* C1 amended: the end-to-end line has two empty tokens.  A cycle that
\* receives it decodes a 20-slot frame in which slots 2 and 11 (sensor_2 and
\* sensor_11) are empty and the other 18 hold the tokens' values; when the
\* cycle completes it has made exactly those 18 publish calls, in schema
\* order, none to sensor_2 or sensor_11, and a cycle cut short by a raising
\* publish call has made a prefix of them.
C1_EndToEnd ==
  (ReadOk(log) /\ wire = E2EFrame) =>
    /\ values = E2EValues
    /\ pc \in {"sleep", "crashed"}
    /\ IsPrefix(Published(log), E2EPublished)
    /\ pc = "sleep" => Published(log) = E2EPublished

C1_Witness == pc = "sleep" /\ ReadOk(log) /\ wire = E2EFrame

\* C2: a response whose comma-separated token count is not N yields no
\* frame, and the cycle that read it makes no measurement publish call,
\* whatever the tokens are.
C2_WrongLengthNoPublish ==
  (ReadOk(log) /\ (Len(wire) # N \/ Len(Split(response)) # N)) =>
    /\ values = None
    /\ Publishes(log) = << >>
    /\ pc = "sleep"

C2_Witness ==
  /\ pc = "sleep"
  /\ ReadOk(log)
  /\ Len(wire) = N + 1
  /\ \A i \in 1..Len(wire) : wire[i] = PlainToken(i)

\* the text of wire token i as the bridge reads it
TokenText(i) == Decode(wire[i])

\* the slots for which a publish call to {prefix}/{name of slot} was made
SlotsPublished ==
  {i \in 1..N : \E j \in 1..Len(Publishes(log)) :
     Publishes(log)[j].topic = MQTT_TOPIC_PREFIX \o "/" \o SENSOR_NAMES[i]}

\* C3 as stated: in a completed cycle that received a line of exactly N
\* tokens, slot i is published if and only if token i passes the numeric
\* test, the publishes are in schema order, and each carries its token's value.
C3_PerSlotPublish ==
  (pc = "sleep" /\ ReadOk(log) /\ Len(wire) = N) =>
    /\ SlotsPublished = {i \in 1..N : LooksNumeric(TokenText(i))}
    /\ Len(Publishes(log)) = Cardinality(SlotsPublished)
    /\ \A j \in 1..Len(Publishes(log)) :
         \E i \in SlotsPublished :
           /\ Publishes(log)[j].topic = MQTT_TOPIC_PREFIX \o "/" \o SENSOR_NAMES[i]
           /\ Cardinality({h \in SlotsPublished : h < i}) = j - 1
           /\ Publishes(log)[j].value = values[i]

\* the timer an iteration has after its send-time task, from the values it
\* began with
TimerOfIteration ==
  IF current_time - timer0 >= TimeSyncCadence THEN current_time ELSE timer0

\* C4 as stated: after a transport fault and a successful reopen the timer
\* has the value it had at the start of that cycle.
C4_Original == (pc = "sleep" /\ FaultIn(log)) => last_time_sent = timer0

\* C4 amended: the fault-and-reopen path itself never changes the timer.
\* After the recovery last_time_sent has the value it had when the fault was
\* raised: its value at the start of the cycle when no time sync was due in
\* that cycle, and that cycle's current_time when one was due (the send-time
\* task restarts the timer before the request is written).
C4_TimerAcrossRecovery ==
  /\ [](FaultIn(log) => last_time_sent = TimerOfIteration)
  /\ [][pc = "recover" => last_time_sent' = last_time_sent]_vars

C4_Witness ==
  /\ pc = "sleep"
  /\ FaultIn(log)
  /\ log[Len(log)] = Ev("open", "ok", "", << >>)
  /\ last_time_sent = timer0

\* C5: a cycle with a transport fault on the command write or on the line
\* read makes no measurement publish call; after the fault only the close
\* and the open follow, and no frame request is issued until the loop has
\* slept one poll cadence.
C5_FaultCycleNoPublishThenSleep ==
  /\ FaultIn(log) => Publishes(log) = << >> /\ pc \in {"recover", "sleep", "stopped"}
  /\ \A i \in 1..Len(log) : \A j \in (i + 1)..Len(log) :
       TransportFault(log[i]) => log[j].op \in {"close", "open"}
  /\ ((pc = "top" /\ cycles >= 1) \/ (pc = "poll" /\ cycles >= 2)) =>
       log[1] = Ev("sleep", "ok", "", <<PollCadence>>)

C5_Witness ==
  /\ pc = "sleep"
  /\ \E i \in 1..Len(log) : log[i] = Ev("readline", "SerialException", "", << >>)
  /\ log[Len(log)] = Ev("open", "ok", "", << >>)

\* C6: a transport fault raised by the frame request is followed by exactly
\* one close and one open; when the open fails the loop is left and nothing
\* happens any more, and when it succeeds the loop goes on to its sleep.
C6_OneReopenThenStop ==
  [][ /\ (pc' # pc /\ Len(log') > 0 /\ TransportFault(log'[Len(log')])) =>
           pc' = "recover"
      /\ pc = "recover" =>
           \E r \in {"ok", "Exception"} :
             /\ log' = log \o << Ev("close", "ok", "", << >>),
                                 Ev("open", r, "", << >>) >>
             /\ pc' = IF r = "ok" THEN "sleep" ELSE "stopped"
      /\ pc = "stopped" => FALSE ]_vars

C6_Witness ==
  /\ pc = "stopped"
  /\ Len(log) >= 3
  /\ TransportFault(log[Len(log) - 2])
  /\ log[Len(log)] = Ev("open", "Exception", "", << >>)

\* the time push of the loop's send-time task (the one at startup follows
\* the discovery announcement)
LoopPush(i) ==
  /\ log[i].op = "pushTime"
  /\ i > 1
  /\ log[i - 1].op \in {"sleep", "pushTime"}

\* C7: a failed time push of the send-time task neither ends the loop nor
\* skips the poll: the next call of that cycle is the frame request.
C7_PushFailureThenRequest ==
  \A i \in 1..Len(log) :
    (LoopPush(i) /\ log[i].res # "ok") =>
      IF i = Len(log) THEN pc = "poll" ELSE log[i + 1].op = "request"

C7_Witness ==
  \E i \in 1..(Len(log) - 1) :
    /\ LoopPush(i)
    /\ log[i].res = "SerialException"
    /\ log[i + 1] = Ev("request", "ok", "", << >>)

\* the transport could not be opened at startup
StartupOpenFailed ==
  cycles = 0 /\ Len(log) >= 1 /\ log[1].op = "open" /\ log[1].res # "ok"

\* the broker connect failed
ConnectFailed == \E i \in 1..Len(log) : log[i].op = "connect" /\ log[i].res # "ok"

\* C8: when the transport cannot be opened at startup nothing else is ever
\* attempted (no connect, no announcement, no publish); when the broker
\* connect fails the loop is never entered (no announcement, no frame
\* request, no time push, no publish).
C8_StartupGating ==
  /\ [](StartupOpenFailed => pc = "exited" /\ Len(log) = 1)
  /\ [](ConnectFailed =>
          /\ pc = "exited"
          /\ \A i \in 1..Len(log) : log[i].op \in {"open", "connect", "close"})
  /\ [][pc = "exited" => FALSE]_vars

C8_Witness == pc = "exited" /\ ConnectFailed /\ Len(log) = 3

\* the discovery announcements in a log
Announces(l) == SelectSeq(l, LAMBDA e : e.op = "announce")

\* C9: the discovery announcement is made once, one config publish per
\* schema slot, before any time push, frame request or measurement publish,
\* and never again.
C9_AnnounceOnce ==
  /\ announced <= 1
  /\ pc \in {"startpush", "top", "poll", "recover", "sleep", "stopped", "crashed"}
       => announced = 1
  /\ \A i \in 1..Len(log) : \A j \in 1..Len(log) :
       (log[i].op = "announce"
          /\ log[j].op \in {"pushTime", "request", "readline", "publish"}) => i < j
  /\ announced = 0 => Announces(log) = << >>
  /\ (announced = 1 /\ Len(log) > 0 /\ log[1].op # "sleep") =>
       /\ Len(Announces(log)) = N
       /\ \A i \in 1..N :
            Announces(log)[i].topic =
              "homeassistant/sensor/paladin_" \o SENSOR_NAMES[i] \o "/config"
  /\ (Len(log) > 0 /\ log[1].op = "sleep") => Announces(log) = << >>
  /\ (\E i \in 1..Len(log) : log[i].op \in {"pushTime", "request", "publish"})
       => announced = 1

C9_Witness ==
  /\ pc = "sleep"
  /\ cycles >= 2
  /\ announced = 1
  /\ FaultIn(log)
  /\ Announces(log) = << >>

\* C10: an empty response is no transport fault: the cycle publishes
\* nothing, the port is neither closed nor reopened, and the loop goes on to
\* its sleep with the same open port.
C10_EmptyResponseSkips ==
  (ReadOk(log) /\ response = << >>) =>
    /\ pc = "sleep"
    /\ is_open
    /\ values = None
    /\ Len(log) >= 2
    /\ log[Len(log) - 1] = Ev("request", "ok", "", << >>)
    /\ log[Len(log)] = Ev("readline", "ok", "", << >>)
    /\ \A i \in 1..Len(log) : log[i].op # "close"

C10_Witness ==
  pc = "sleep" /\ ReadOk(log) /\ response = << >> /\ wire = << >> /\ cycles >= 2

\* the payload of the last call in the log
LastPayload == log[Len(log)].value

\* C11: the payload built from the time of day (h, m, s) is "T" followed by
\* the decimal integer h*3600 + m*60 + s (no sign, no leading zero), a
\* number in 0..86399; 14:05:09 gives T50709.
C11_TimePayload ==
  pc = "top" =>
    /\ now.hour \in 0..23 /\ now.minute \in 0..59 /\ now.second \in 0..59
    /\ now.hour * 3600 + now.minute * 60 + now.second = clock
    /\ log[Len(log)].op = "pushTime"
    /\ Len(LastPayload) >= 2
    /\ LastPayload[1] = "T"
    /\ \A i \in 2..Len(LastPayload) : LastPayload[i] \in Digits
    /\ Len(LastPayload) > 2 => LastPayload[2] # "0"
    /\ DigitsToNat(Tail(LastPayload), 0)
         = now.hour * 3600 + now.minute * 60 + now.second
    /\ DigitsToNat(Tail(LastPayload), 0) \in 0..86399
    /\ (now.hour = 14 /\ now.minute = 5 /\ now.second = 9) =>
         LastPayload = <<"T", "5", "0", "7", "0", "9">>

C11_Witness ==
  /\ pc = "top"
  /\ now = [hour |-> 14, minute |-> 5, second |-> 9]
  /\ log[Len(log)].op = "pushTime"
  /\ log[Len(log)].res = "ok"
  /\ log[Len(log)].value = <<"T", "5", "0", "7", "0", "9">>

C13_FailedPushKeepsTimer ==
  \A i \in 1..Len(log) :
    (LoopPush(i) /\ log[i].res # "ok") =>
      /\ last_time_sent = timer0
      /\ current_time + PollCadence - last_time_sent >= TimeSyncCadence

\* the calls made on the serial port after it was opened
OnPort(e) == e.op \in {"request", "readline", "pushTime"}

\* C14: a write or read on the serial port that raises an I/O error
\* (SerialException), the write of the time payload included, is never
\* followed by a frame request, a read or a time push: the next call on the
\* port closes and reopens it.
C14_NoCallOnFaultedPort ==
  \A i \in 1..Len(log) :
    (OnPort(log[i]) /\ log[i].res = "SerialException" /\ i < Len(log)) =>
      log[i + 1].op \in {"close", "open"}

\* a publish call of the current iteration raised
PublishRaised(l) == \E i \in 1..Len(l) : l[i].op = "publish" /\ l[i].res = "Exception"

\* C15: an error raised by a publish call does not stop the loop: the cycle
\* ends in the poll-cadence sleep with the serial port open and neither
\* closed nor reopened.
C15_PublishErrorKeepsLoop ==
  PublishRaised(log) =>
    /\ pc = "sleep"
    /\ is_open
    /\ \A i \in 1..Len(log) : log[i].op # "close"

\* the tokens parse_uart_data splits the response into
TokensOf(resp) == Split(Strip(resp))

\* C16: for a response of exactly N tokens the decode returns N slots, each
\* decided by its own token: the converted value when the token passes the
\* numeric test and converts, empty otherwise.
C16_ConversionFailureIsLocal ==
  (ReadOk(log) /\ response # << >> /\ Len(TokensOf(response)) = N) =>
    /\ values # None
    /\ Len(values) = N
    /\ \A i \in 1..N :
         values[i] = IF LooksNumeric(TokensOf(response)[i])
                        /\ ~FloatRaises(TokensOf(response)[i])
                     THEN Float(TokensOf(response)[i])
                     ELSE None

\* the calls of the first iteration are in the log: the loop was entered
\* and has not slept yet
InFirstCycle == cycles = 1 /\ log[1].op # "sleep"

\* C17: the first poll cycle writes a time payload before its frame request,
\* at every start clock, and before any measurement is published: the push
\* of the send-time task follows the startup push directly, and every
\* request, read and publish call comes after it.
C17_FirstCyclePushesFirst ==
  InFirstCycle =>
    /\ last_time_sent = current_time
    /\ \E i \in 2..Len(log) :
         /\ LoopPush(i)
         /\ log[i - 1].op = "pushTime"
         /\ \A j \in 1..Len(log) :
              log[j].op \in {"request", "readline", "publish"} => j > i

C17_Witness ==
  /\ InFirstCycle
  /\ pc = "sleep"
  /\ current_time = 24 * TimeSyncCadence - 1
  /\ Len(Publishes(log)) = N
  /\ \E i \in 2..Len(log) : LoopPush(i) /\ log[i + 1].op = "request"

\* the time payloads that reached the device, among the calls in the log
TimeWrites(l) == SelectSeq(l, LAMBDA e : e.op = "pushTime" /\ e.res = "ok")

\* C18: any two time payloads written to the device in one run, the one
\* written at startup included, are at least one time-sync cadence apart.
C18_PushesACadenceApart ==
  \A i, j \in 1..Len(TimeWrites(log)) :
    i < j => TimeWrites(log)[j].at - TimeWrites(log)[i].at >= TimeSyncCadence

\* the calls the two bridges are compared on: all but the time payload writes
Core(l) == SelectSeq(l, LAMBDA e : e.op # "pushTime")

\* main is in its loop or on its way into it
Continues(p) == p \notin {"exited", "stopped", "crashed"}

====
